---- MODULE Spec2Model ----
(***************************************************************************)
(* Model of priam.go: the Priam orchestrator that backs up a cassandra     *)
(* keyspace to S3 and restores it.  One Priam object runs History, Backup  *)
(* and Restore one after the other; every call to a collaborator (the      *)
(* cassandra driver, the agent, S3) is a step that succeeds or fails.      *)
(* Strings are sequences: "" is << >>, a timestamp is a sequence of        *)
(* digits.                                                                 *)
(***************************************************************************)
EXTENDS Integers, Sequences, FiniteSets, TLC

\* ---- bounds ----
MaxClock == 2
ClockStep == 5
MaxHosts == 2
MaxFiles == 1
MaxRuns == 2
MaxFailures == 1

VARIABLES s3, hist, config, pc, kind, hosts, timestamp, parent,
          snapshot, i, reqIncr, ops, keys, pushed, dirs, result, runs, failures

vars == <<s3, hist, config, pc, kind, hosts, timestamp, parent,
          snapshot, i, reqIncr, ops, keys, pushed, dirs, result, runs, failures>>

\* ---- strings and timestamps ----

\* Go's > on strings: bytewise lexicographic order.
RECURSIVE StrGt(_, _)
StrGt(a, b) ==
    IF a = << >> THEN FALSE
    ELSE IF b = << >> THEN TRUE
    ELSE IF Head(a) # Head(b) THEN Head(a) > Head(b)
    ELSE StrGt(Tail(a), Tail(b))

\* time.Now().Format("2006-01-02_150405"): fixed width, most significant
\* field first, zero padded.  The clock reading t is rendered in two digits.
NewTimestamp(t) == << (t \div 10) % 10, t % 10 >>

Clock == { ClockStep * k : k \in 1..MaxClock }
Timestamps == { NewTimestamp(t) : t \in Clock }

\* ---- hosts and files ----
HostNames == << "h2", "h1", "h3", "h4" >>
FileNames == << "f1", "f2", "f3" >>
AllHosts == { HostNames[n] : n \in 1..MaxHosts }

\* cassandra.Hosts(): the first n hosts of the cluster, possibly none.
HostLists == { SubSeq(HostNames, 1, n) : n \in 0..MaxHosts }

\* files returned by cassandra.Snapshot(host, timestamp)
SnapshotFiles == { FileNames[n] : n \in 1..MaxFiles }

\* ---- key namespace ----
\* /{AwsBasePath}/{Keyspace}/{parent}/{timestamp}/{Keyspace}.schema.gz
\* the base path and the keyspace are the same for every key of a model run.
SchemaName == "ks.schema.gz"

Key(p, t, h, f) == [parent |-> p, timestamp |-> t, host |-> h, name |-> f]

\* the wrong order of the two timestamps in the format arguments
schemaBackupKey_swapped(p, t) == Key(t, p, "", SchemaName)

\* key built by schemaBackup
schemaBackupKey(p, t) == Key(p, t, "", SchemaName)

\* the schema key is built from the target alone
createSchemaKey_target(p, t) == Key(t, t, "", SchemaName)

\* key built by createSchema
createSchemaKey(p, t) == Key(p, t, "", SchemaName)

\* keys written by s3.UploadFiles(parent, timestamp, host, files)
DataKeys(p, t, h, files) == { Key(p, t, h, f) : f \in files }

\* path.Dir of the remote file of a key
RemoteDir(k) == [parent |-> k.parent, timestamp |-> k.timestamp, host |-> k.host]

\* ---- snapshot history ----
NoHist == [loaded |-> FALSE, keys |-> {}]

HistTimestamps(h) == { k.timestamp : k \in h.keys }

StrMin(S) == CHOOSE x \in S : \A y \in S : ~StrGt(x, y)

RECURSIVE SortedSeq(_)
SortedSeq(S) ==
    IF S = {} THEN << >>
    ELSE LET m == StrMin(S) IN << m >> \o SortedSeq(S \ {m})

\* hist.List(): the timestamps of the history, ascending
List(h) == SortedSeq(HistTimestamps(h))

\* hist.Valid(ts)
Valid(h, ts) == ts \in HistTimestamps(h)

\* the parents recorded for ts in the key namespace
Parents(h, ts) == { k.parent : k \in { x \in h.keys : x.timestamp = ts } }

IsData(k) == k.name # SchemaName

\* hist.Keys(ts): data keys of ts and of every ancestor up to the full backup
RECURSIVE ChainKeys(_, _, _)
ChainKeys(h, ts, fuel) ==
    LET own == { k \in h.keys : k.timestamp = ts /\ IsData(k) }
        up  == { p \in Parents(h, ts) : p # ts }
    IN  IF fuel = 0 THEN own
        ELSE own \cup UNION { ChainKeys(h, p, fuel - 1) : p \in up }

Keys(h, ts) == ChainKeys(h, ts, Cardinality(HistTimestamps(h)))

RECURSIVE ChainOk(_, _, _)
ChainOk(h, ts, fuel) ==
    /\ Valid(h, ts)
    /\ fuel > 0
    /\ \A p \in Parents(h, ts) : p = ts \/ ChainOk(h, p, fuel - 1)

KeysOk(h, ts) == ChainOk(h, ts, Cardinality(HistTimestamps(h)) + 1)

\* ---- operations log of the current run ----
Op(o, h, p, t, ok) == [op |-> o, host |-> h, parent |-> p, timestamp |-> t, ok |-> ok]

Last(s) == s[Len(s)]
Range(s) == { s[n] : n \in DOMAIN s }

\* ---- Priam.SnapshotHistory ----
\* a failed query leaves an empty history in the cache
HistAfter_cachefail(h, store, queryOk) ==
    IF h.loaded THEN h
    ELSE [loaded |-> TRUE, keys |-> IF queryOk THEN store ELSE {}]

\* the cached history is not looked at: every call loads again
HistAfter_reload(h, store, queryOk) ==
    IF queryOk THEN [loaded |-> TRUE, keys |-> store] ELSE h

\* the cached history after the call; queryOk is the outcome of s3.SnapshotHistory
HistAfter(h, store, queryOk) ==
    IF h.loaded THEN h
    ELSE IF queryOk THEN [loaded |-> TRUE, keys |-> store]
    ELSE h

HistErr(h, queryOk) == ~h.loaded /\ ~queryOk

HistOps(h, queryOk) ==
    IF h.loaded THEN << >>
    ELSE << Op("s3.SnapshotHistory", "", << >>, << >>, queryOk) >>

\* the values of the command line: -incremental and -snapshot ("" when absent)
ExplicitTargets == { NewTimestamp(ClockStep) }
Configs == [Incremental : BOOLEAN, Snapshot : {<< >>} \cup ExplicitTargets]

Init ==
    /\ s3 = {}
    /\ hist = NoHist
    /\ config \in Configs
    /\ pc = "idle"
    /\ kind = "none"
    /\ hosts = << >>
    /\ timestamp = << >>
    /\ parent = << >>
    /\ snapshot = << >>
    /\ i = 0
    /\ reqIncr = FALSE
    /\ ops = << >>
    /\ keys = {}
    /\ pushed = {}
    /\ dirs = {}
    /\ result = "none"
    /\ runs = 0
    /\ failures = 0

Idle == pc \in {"idle", "done"}

\* the locals of a run at its entry
Enter(k, hs) ==
    /\ kind' = k
    /\ hosts' = hs
    /\ timestamp' = << >>
    /\ parent' = << >>
    /\ snapshot' = << >>
    /\ i' = 0
    /\ reqIncr' = config.Incremental
    /\ keys' = {}
    /\ pushed' = {}
    /\ dirs' = {}
    /\ runs' = runs + 1

Return(r) == pc' = "done" /\ result' = r

\* the outcomes a call to a collaborator can have: it succeeds, or it fails
\* while the behaviour has failures left
Outcomes == IF failures < MaxFailures THEN BOOLEAN ELSE {TRUE}
Charge(ok) == failures' = IF ok THEN failures ELSE failures + 1

\* New: a fresh Priam object for the next invocation
New ==
    /\ pc = "done"
    /\ runs < MaxRuns
    /\ hist' = NoHist
    /\ config' \in Configs
    /\ pc' = "idle"
    /\ kind' = "none"
    /\ hosts' = << >>
    /\ timestamp' = << >>
    /\ parent' = << >>
    /\ snapshot' = << >>
    /\ i' = 0
    /\ reqIncr' = FALSE
    /\ ops' = << >>
    /\ keys' = {}
    /\ pushed' = {}
    /\ dirs' = {}
    /\ result' = "none"
    /\ UNCHANGED <<s3, runs, failures>>

\* ---- Priam.History ----
History ==
    /\ Idle
    /\ runs < MaxRuns
    /\ \E queryOk \in Outcomes :
        /\ Charge(~HistErr(hist, queryOk))
        /\ Enter("history", << >>)
        /\ ops' = HistOps(hist, queryOk)
        /\ hist' = HistAfter(hist, s3, queryOk)
        /\ IF HistErr(hist, queryOk)
             THEN Return("error getting snapshot history")
             ELSE Return("ok")
    /\ UNCHANGED <<s3, config>>

\* the host list is never found empty
NoHosts_never(hs) == FALSE

\* lines 51 and 160: len(hosts) == 0
NoHosts(hs) == Len(hs) = 0

\* ---- Priam.Backup ----
BackupHosts ==
    /\ Idle
    /\ runs < MaxRuns
    /\ \E hs \in HostLists :
        /\ Enter("backup", hs)
        /\ ops' = << Op("cassandra.Hosts", "", << >>, << >>, TRUE) >>
        /\ IF NoHosts(hs)
             THEN Return("unable to get any cassandra hosts")
             ELSE pc' = "b_hist" /\ result' = "none"
    /\ UNCHANGED <<s3, hist, config, failures>>

BackupSnapshotHistory ==
    /\ pc = "b_hist"
    /\ \E queryOk \in Outcomes :
        /\ Charge(~HistErr(hist, queryOk))
        /\ ops' = ops \o HistOps(hist, queryOk)
        /\ hist' = HistAfter(hist, s3, queryOk)
        /\ IF HistErr(hist, queryOk)
             THEN Return("error getting snapshot history")
             ELSE pc' = "b_ts" /\ UNCHANGED result
    /\ UNCHANGED <<s3, config, kind, hosts, timestamp, parent,
                   snapshot, i, reqIncr, keys, pushed, dirs, runs>>

\* the check of line 69
NonMonotonic(snapshots, ts) ==
    Len(snapshots) > 0 /\ StrGt(Last(snapshots), ts)

\* the incremental flag is left as requested on the full-backup branch
ResolveParent_keepflag(snapshots, incremental, ts) ==
    IF Len(snapshots) > 0 /\ incremental
      THEN [parent |-> Last(snapshots), incremental |-> incremental]
      ELSE [parent |-> ts, incremental |-> incremental]

\* the parent is never assigned: every run is written under its own timestamp
ResolveParent_self(snapshots, incremental, ts) ==
    IF Len(snapshots) > 0 /\ incremental
      THEN [parent |-> ts, incremental |-> incremental]
      ELSE [parent |-> ts, incremental |-> FALSE]

\* lines 73-78: the parent timestamp and config.Incremental after them
ResolveParent(snapshots, incremental, ts) ==
    IF Len(snapshots) > 0 /\ incremental
      THEN [parent |-> Last(snapshots), incremental |-> incremental]
      ELSE [parent |-> ts, incremental |-> FALSE]

\* whether lines 69 and 74-75 read snapshots[len(snapshots)-1]: both reads
\* are behind len(snapshots) > 0
ReadsLast(snapshots) == Len(snapshots) > 0

\* lines 60-79: NewTimestamp, hist.List, the check and the parent
BackupTimestamp ==
    /\ pc = "b_ts"
    /\ \E t \in Clock :
        LET ts == NewTimestamp(t)
            snapshots == List(hist)
            rd == IF ReadsLast(snapshots)
                    THEN << Op("snapshots[last]", "", << >>, << >>, TRUE) >>
                    ELSE << >>
            rp == ResolveParent(snapshots, config.Incremental, ts)
        IN  /\ timestamp' = ts
            /\ ops' = (ops \o << Op("hist.List", "", << >>, << >>, TRUE) >>) \o rd
            /\ IF NonMonotonic(snapshots, ts)
                 THEN /\ Return("new timestamp less than last")
                      /\ parent' = ts
                      /\ UNCHANGED config
                 ELSE /\ parent' = rp.parent
                      /\ config' = [config EXCEPT !.Incremental = rp.incremental]
                      /\ pc' = "b_dump"
                      /\ UNCHANGED result
    /\ UNCHANGED <<s3, hist, kind, hosts, snapshot, i, reqIncr,
                   keys, pushed, dirs, runs, failures>>

\* the schema is dumped from the last host of the list
BackupSchemaDump_last ==
    /\ pc = "b_dump"
    /\ \E ok \in Outcomes :
        /\ Charge(ok)
        /\ ops' = Append(ops, Op("cassandra.SchemaBackup", Last(hosts), << >>, << >>, ok))
        /\ IF ok THEN pc' = "b_schema" /\ UNCHANGED result
                 ELSE Return("schema backup failed")
    /\ UNCHANGED <<s3, hist, config, kind, hosts, timestamp, parent,
                   snapshot, i, reqIncr, keys, pushed, dirs, runs>>

\* schemaBackup: cassandra.SchemaBackup(host)
BackupSchemaDump ==
    /\ pc = "b_dump"
    /\ \E ok \in Outcomes :
        /\ Charge(ok)
        /\ ops' = Append(ops, Op("cassandra.SchemaBackup", hosts[1], << >>, << >>, ok))
        /\ IF ok THEN pc' = "b_schema" /\ UNCHANGED result
                 ELSE Return("schema backup failed")
    /\ UNCHANGED <<s3, hist, config, kind, hosts, timestamp, parent,
                   snapshot, i, reqIncr, keys, pushed, dirs, runs>>

\* the error of schemaBackup is not returned
AfterSchema_continue(ok) == "b_snap"

\* where Backup goes when schemaBackup has returned
AfterSchema(ok) == IF ok THEN "b_snap" ELSE "done"

\* schemaBackup: s3.UploadFile(host, schemaFile, key)
BackupSchemaUpload ==
    /\ pc = "b_schema"
    /\ \E ok \in Outcomes :
        LET key == schemaBackupKey(parent, timestamp) IN
        /\ Charge(ok)
        /\ ops' = Append(ops, Op("s3.UploadFile", hosts[1], key.parent, key.timestamp, ok))
        /\ s3' = IF ok THEN s3 \cup {key} ELSE s3
        /\ pc' = AfterSchema(ok)
        /\ result' = IF ok THEN result ELSE "schema backup failed"
        /\ i' = 1
    /\ UNCHANGED <<hist, config, kind, hosts, timestamp, parent,
                   snapshot, reqIncr, keys, pushed, dirs, runs>>

\* the error of cassandra.Snapshot is not returned
BackupSnapshot_noabort ==
    /\ pc = "b_snap"
    /\ \E ok \in Outcomes :
        /\ Charge(ok)
        /\ ops' = Append(ops, Op("cassandra.Snapshot", hosts[i], << >>, timestamp, ok))
        /\ pc' = "b_upload"
    /\ UNCHANGED <<s3, hist, config, kind, hosts, timestamp, parent, result,
                   snapshot, i, reqIncr, keys, pushed, dirs, runs>>

\* cassandra.Snapshot(host, timestamp)
BackupSnapshot ==
    /\ pc = "b_snap"
    /\ \E ok \in Outcomes :
        /\ Charge(ok)
        /\ ops' = Append(ops, Op("cassandra.Snapshot", hosts[i], << >>, timestamp, ok))
        /\ IF ok THEN pc' = "b_upload" /\ UNCHANGED result
                 ELSE Return("snapshot")
    /\ UNCHANGED <<s3, hist, config, kind, hosts, timestamp, parent,
                   snapshot, i, reqIncr, keys, pushed, dirs, runs>>

\* s3.UploadFiles(parent, timestamp, host, files): a failed call may have
\* uploaded some of the files.
BackupUpload ==
    /\ pc = "b_upload"
    /\ \E n \in 0..MaxFiles :
        LET ok == n = MaxFiles
            done == { FileNames[m] : m \in 1..n }
        IN  /\ ok \in Outcomes
            /\ Charge(ok)
            /\ ops' = Append(ops, Op("s3.UploadFiles", hosts[i], parent, timestamp, ok))
            /\ s3' = s3 \cup DataKeys(parent, timestamp, hosts[i], done)
            /\ IF ok THEN pc' = "b_delete" /\ UNCHANGED result
                     ELSE Return("upload")
    /\ UNCHANGED <<hist, config, kind, hosts, timestamp, parent,
                   snapshot, i, reqIncr, keys, pushed, dirs, runs>>

\* the error of a host is logged and the loop goes on
AfterDelete_ignore(ok, n, len) ==
    IF n < len THEN [pc |-> "b_snap", result |-> "none", i |-> n + 1]
    ELSE [pc |-> "done", result |-> IF ok THEN "ok" ELSE "delete", i |-> n]

\* return nil inside the loop body
AfterDelete_early(ok, n, len) ==
    IF ~ok THEN [pc |-> "done", result |-> "delete", i |-> n]
    ELSE [pc |-> "done", result |-> "ok", i |-> n]

\* where the loop goes after deleteSnapshot of host number n of len hosts
AfterDelete(ok, n, len) ==
    IF ~ok THEN [pc |-> "done", result |-> "delete", i |-> n]
    ELSE IF n < len THEN [pc |-> "b_snap", result |-> "none", i |-> n + 1]
    ELSE [pc |-> "done", result |-> "ok", i |-> n]

\* cassandra.deleteSnapshot(host, dirs), the end of the loop body and return nil
BackupDelete ==
    /\ pc = "b_delete"
    /\ \E ok \in Outcomes :
        LET nx == AfterDelete(ok, i, Len(hosts)) IN
        /\ Charge(ok)
        /\ ops' = Append(ops, Op("cassandra.deleteSnapshot", hosts[i], << >>, timestamp, ok))
        /\ pc' = nx.pc
        /\ result' = nx.result
        /\ i' = nx.i
    /\ UNCHANGED <<s3, hist, config, kind, hosts, timestamp, parent,
                   snapshot, reqIncr, keys, pushed, dirs, runs>>

\* ---- Priam.Restore ----
RestoreHosts ==
    /\ Idle
    /\ runs < MaxRuns
    /\ \E hs \in HostLists :
        /\ Enter("restore", hs)
        /\ ops' = << Op("cassandra.Hosts", "", << >>, << >>, TRUE) >>
        /\ IF NoHosts(hs)
             THEN Return("did not find valid cassandra hosts")
             ELSE pc' = "r_hist" /\ result' = "none"
    /\ UNCHANGED <<s3, hist, config, failures>>

RestoreSnapshotHistory ==
    /\ pc = "r_hist"
    /\ \E queryOk \in Outcomes :
        /\ Charge(~HistErr(hist, queryOk))
        /\ ops' = ops \o HistOps(hist, queryOk)
        /\ hist' = HistAfter(hist, s3, queryOk)
        /\ IF HistErr(hist, queryOk)
             THEN Return("error getting snapshot history")
             ELSE pc' = "r_target" /\ UNCHANGED result
    /\ UNCHANGED <<s3, config, kind, hosts, timestamp, parent,
                   snapshot, i, reqIncr, keys, pushed, dirs, runs>>

\* the latest entry replaces the snapshot given on the command line
Target_latest(explicit, snapshots) ==
    IF Len(snapshots) > 0 THEN Last(snapshots)
    ELSE explicit

\* lines 163-176: the snapshot to restore to
Target(explicit, snapshots) ==
    IF explicit # << >> THEN explicit
    ELSE IF Len(snapshots) > 0 THEN Last(snapshots)
    ELSE << >>

\* the target is not validated
TargetError_novalid(h, target) ==
    IF target = << >> THEN "no existing backup to restore from"
    ELSE ""

\* lines 177-184: the error of the target, "" when it is accepted
TargetError(h, target) ==
    IF target = << >> THEN "no existing backup to restore from"
    ELSE IF ~Valid(h, target) THEN "not a valid snapshot"
    ELSE ""

RestoreTarget ==
    /\ pc = "r_target"
    /\ LET target == Target(config.Snapshot, List(hist))
           err == TargetError(hist, target)
           ls == IF config.Snapshot = << >>
                   THEN << Op("hist.List", "", << >>, << >>, TRUE) >> ELSE << >>
           vs == IF target # << >>
                   THEN << Op("hist.Valid", "", << >>, target, Valid(hist, target)) >>
                   ELSE << >>
       IN  /\ snapshot' = target
           /\ ops' = (ops \o ls) \o vs
           /\ IF err # "" THEN Return(err)
                          ELSE pc' = "r_drop" /\ UNCHANGED result
    /\ UNCHANGED <<s3, hist, config, kind, hosts, timestamp, parent,
                   i, reqIncr, keys, pushed, dirs, runs, failures>>

\* deleteKeyspace: agent.Run(host, "DROP KEYSPACE IF EXISTS ...")
RestoreDeleteKeyspace ==
    /\ pc = "r_drop"
    /\ \E ok \in Outcomes :
        /\ Charge(ok)
        /\ ops' = Append(ops, Op("DropKeyspace", hosts[1], << >>, << >>, ok))
        /\ IF ok THEN pc' = "r_schema_get" /\ UNCHANGED result
                 ELSE Return("error deleting keyspace")
    /\ UNCHANGED <<s3, hist, config, kind, hosts, timestamp, parent, snapshot,
                   i, reqIncr, keys, pushed, dirs, runs>>

\* createSchema: hist.Parent(snapshot) and s3.downloadKey(key, localTmpDir)
RestoreSchemaDownload ==
    /\ pc = "r_schema_get"
    /\ \E p \in Parents(hist, snapshot), net \in Outcomes :
        LET key == createSchemaKey(p, snapshot)
            ok == net /\ key \in s3
        IN  /\ Charge(net)
            /\ parent' = p
            /\ ops' = (ops \o << Op("hist.Parent", "", p, snapshot, TRUE) >>)
                        \o << Op("s3.downloadKey", "", key.parent, key.timestamp, ok) >>
            /\ IF ok THEN pc' = "r_schema_put" /\ UNCHANGED result
                     ELSE Return("error creating schema")
    /\ UNCHANGED <<s3, hist, config, kind, hosts, timestamp, snapshot,
                   i, reqIncr, keys, pushed, dirs, runs>>

\* the error of agent.UploadFile is not returned: the schema is applied anyway
RestoreSchemaPush_noabort ==
    /\ pc = "r_schema_put"
    /\ \E ok \in Outcomes :
        /\ Charge(ok)
        /\ ops' = Append(ops, Op("agent.UploadFile", hosts[1], parent, snapshot, ok))
        /\ pc' = "r_schema_run"
    /\ UNCHANGED <<s3, hist, config, kind, hosts, timestamp, parent, result,
                   snapshot, i, reqIncr, keys, pushed, dirs, runs>>

\* createSchema: agent.UploadFile(host, localFile, dir)
RestoreSchemaPush ==
    /\ pc = "r_schema_put"
    /\ \E ok \in Outcomes :
        /\ Charge(ok)
        /\ ops' = Append(ops, Op("agent.UploadFile", hosts[1], parent, snapshot, ok))
        /\ IF ok THEN pc' = "r_schema_run" /\ UNCHANGED result
                 ELSE Return("error creating schema")
    /\ UNCHANGED <<s3, hist, config, kind, hosts, timestamp, parent,
                   snapshot, i, reqIncr, keys, pushed, dirs, runs>>

\* createSchema: agent.Run(host, "cat remoteFile | cqlsh")
RestoreSchemaApply ==
    /\ pc = "r_schema_run"
    /\ \E ok \in Outcomes :
        /\ Charge(ok)
        /\ ops' = Append(ops, Op("CreateSchema", hosts[1], parent, snapshot, ok))
        /\ IF ok THEN pc' = "r_keys" /\ UNCHANGED result
                 ELSE Return("error creating schema")
    /\ UNCHANGED <<s3, hist, config, kind, hosts, timestamp, parent, snapshot,
                   i, reqIncr, keys, pushed, dirs, runs>>

\* the error of hist.Keys is dropped and the run goes on to the download
RestoreKeys_noabort ==
    /\ pc = "r_keys"
    /\ LET ok == KeysOk(hist, snapshot) IN
        /\ ops' = Append(ops, Op("hist.Keys", "", << >>, snapshot, ok))
        /\ keys' = IF ok THEN Keys(hist, snapshot) ELSE {}
        /\ pc' = "r_download"
    /\ UNCHANGED <<s3, hist, config, kind, hosts, timestamp, parent, result,
                   snapshot, i, reqIncr, pushed, dirs, runs, failures>>

\* loadSnapshot: hist.Keys(snapshot)
RestoreKeys ==
    /\ pc = "r_keys"
    /\ LET ok == KeysOk(hist, snapshot) IN
        /\ ops' = Append(ops, Op("hist.Keys", "", << >>, snapshot, ok))
        /\ keys' = IF ok THEN Keys(hist, snapshot) ELSE {}
        /\ IF ok THEN pc' = "r_download" /\ UNCHANGED result
                 ELSE Return("error loading snapshot")
    /\ UNCHANGED <<s3, hist, config, kind, hosts, timestamp, parent,
                   snapshot, i, reqIncr, pushed, dirs, runs, failures>>

\* the error of s3.downloadKeys is not returned
RestoreDownload_noabort ==
    /\ pc = "r_download"
    /\ \E net \in Outcomes :
        LET ok == net /\ keys \subseteq s3 IN
        /\ Charge(net)
        /\ ops' = Append(ops, Op("s3.downloadKeys", "", << >>, snapshot, ok))
        /\ pc' = "r_push"
    /\ UNCHANGED <<s3, hist, config, kind, hosts, timestamp, parent, result,
                   snapshot, i, reqIncr, keys, pushed, dirs, runs>>

\* loadSnapshot: s3.downloadKeys(keys, localTmpDir)
RestoreDownload ==
    /\ pc = "r_download"
    /\ \E net \in Outcomes :
        LET ok == net /\ keys \subseteq s3 IN
        /\ Charge(net)
        /\ ops' = Append(ops, Op("s3.downloadKeys", "", << >>, snapshot, ok))
        /\ IF ok THEN pc' = "r_push" /\ UNCHANGED result
                 ELSE Return("error loading snapshot")
    /\ UNCHANGED <<s3, hist, config, kind, hosts, timestamp, parent,
                   snapshot, i, reqIncr, keys, pushed, dirs, runs>>

\* an enumeration of a set of keys
RECURSIVE KeySeq(_)
KeySeq(S) ==
    IF S = {} THEN << >>
    ELSE LET k == CHOOSE x \in S : TRUE IN << k >> \o KeySeq(S \ {k})

\* the first n entries met by range over a map of the keys S: the iteration
\* starts at an arbitrary entry r and goes round
Visited(S, r, n) ==
    LET sq == KeySeq(S)
        len == Len(sq)
    IN  { sq[((r + j) % len) + 1] : j \in 0..(n - 1) }

\* the error of a push is dropped: the directories of the files pushed so far
\* are returned and the run goes on to sstableload
RestoreUploadFilesToHost_noabort ==
    /\ pc = "r_push"
    /\ \E r \in 0..Cardinality(keys), n \in 0..Cardinality(keys) :
        LET ok == n = Cardinality(keys)
            done == IF ok THEN keys ELSE Visited(keys, r, n)
        IN  /\ r < Cardinality(keys) \/ r = 0
            /\ ok \in Outcomes
            /\ Charge(ok)
            /\ pushed' = done
            /\ dirs' = { RemoteDir(k) : k \in done }
            /\ ops' = Append(ops, Op("uploadFilesToHost", hosts[1], << >>, snapshot, ok))
            /\ pc' = "r_load"
    /\ UNCHANGED <<s3, hist, config, kind, hosts, timestamp, parent, result,
                   snapshot, i, reqIncr, keys, runs>>

\* uploadFilesToHost: agent.UploadFile for each downloaded file; n files are
\* pushed before the loop ends, and the loop ends early when a push fails.
RestoreUploadFilesToHost ==
    /\ pc = "r_push"
    /\ \E r \in 0..Cardinality(keys), n \in 0..Cardinality(keys) :
        LET ok == n = Cardinality(keys)
            done == IF ok THEN keys ELSE Visited(keys, r, n)
        IN  /\ r < Cardinality(keys) \/ r = 0
            /\ ok \in Outcomes
            /\ Charge(ok)
            /\ pushed' = done
            /\ dirs' = IF ok THEN { RemoteDir(k) : k \in done } ELSE {}
            /\ ops' = Append(ops, Op("uploadFilesToHost", hosts[1], << >>, snapshot, ok))
            /\ IF ok THEN pc' = "r_load" /\ UNCHANGED result
                     ELSE Return("error loading snapshot")
    /\ UNCHANGED <<s3, hist, config, kind, hosts, timestamp, parent,
                   snapshot, i, reqIncr, keys, runs>>

\* loadSnapshot: cassandra.sstableload(host, dirs)
RestoreSstableload ==
    /\ pc = "r_load"
    /\ \E ok \in Outcomes :
        /\ Charge(ok)
        /\ ops' = Append(ops, Op("cassandra.sstableload", hosts[1], << >>, snapshot, ok))
        /\ IF ok THEN Return("ok") ELSE Return("error loading snapshot")
    /\ UNCHANGED <<s3, hist, config, kind, hosts, timestamp, parent,
                   snapshot, i, reqIncr, keys, pushed, dirs, runs>>

Next ==
    \/ New
    \/ History
    \/ BackupHosts
    \/ BackupSnapshotHistory
    \/ BackupTimestamp
    \/ BackupSchemaDump
    \/ BackupSchemaUpload
    \/ BackupSnapshot
    \/ BackupUpload
    \/ BackupDelete
    \/ RestoreHosts
    \/ RestoreSnapshotHistory
    \/ RestoreTarget
    \/ RestoreDeleteKeyspace
    \/ RestoreSchemaDownload
    \/ RestoreSchemaPush
    \/ RestoreSchemaApply
    \/ RestoreKeys
    \/ RestoreDownload
    \/ RestoreUploadFilesToHost
    \/ RestoreSstableload

Spec == Init /\ [][Next]_vars

\* ---- a store with an earlier backup, and its retention ----
\* the keys of a complete full backup taken at the first clock value on every
\* host of the longest host list: what an earlier successful Backup leaves
EarlierBackup ==
    LET t == NewTimestamp(ClockStep)
    IN  {schemaBackupKey(t, t)}
            \cup UNION { DataKeys(t, t, h, SnapshotFiles) : h \in AllHosts }

\* a Priam object constructed over a store that holds the earlier backup
InitStore ==
    /\ s3 = EarlierBackup
    /\ hist = NoHist
    /\ config \in Configs
    /\ pc = "idle"
    /\ kind = "none"
    /\ hosts = << >>
    /\ timestamp = << >>
    /\ parent = << >>
    /\ snapshot = << >>
    /\ i = 0
    /\ reqIncr = FALSE
    /\ ops = << >>
    /\ keys = {}
    /\ pushed = {}
    /\ dirs = {}
    /\ result = "none"
    /\ runs = 0
    /\ failures = 0

\* an external retention process deletes every key of the oldest snapshot
\* between two runs; it is counted as a fault of the environment
Retention ==
    /\ Idle
    /\ failures < MaxFailures
    /\ s3 # {}
    /\ LET t == StrMin({ k.timestamp : k \in s3 })
       IN  s3' = { k \in s3 : k.timestamp # t }
    /\ failures' = failures + 1
    /\ UNCHANGED <<hist, config, pc, kind, hosts, timestamp, parent, snapshot,
                   i, reqIncr, ops, keys, pushed, dirs, result, runs>>

NextStore == Next \/ Retention

SpecStore == InitStore /\ [][NextStore]_vars

\* ---- vocabulary of the properties ----
OpIdx(names) == { n \in 1..Len(ops) : ops[n].op \in names }
HasOp(name) == OpIdx({name}) # {}
HostOps == {"cassandra.Snapshot", "s3.UploadFiles", "cassandra.deleteSnapshot"}
SchemaOps == {"cassandra.SchemaBackup", "s3.UploadFile"}
KeyOps == {"s3.UploadFile", "s3.UploadFiles"}
RestoreOps == {"DropKeyspace", "hist.Parent", "s3.downloadKey", "agent.UploadFile",
               "CreateSchema", "hist.Keys", "s3.downloadKeys", "uploadFilesToHost",
               "cassandra.sstableload"}
HostErrors == {"snapshot", "upload", "delete"}

\* the Backup run has generated its timestamp
Stamped == kind = "backup" /\ timestamp # << >>
\* the Backup run has gone past the timestamp check
PastCheck == kind = "backup" /\ (pc = "b_dump" \/ HasOp("cassandra.SchemaBackup"))
\* the Backup run has uploaded something
Wrote == kind = "backup" /\ \E n \in OpIdx(KeyOps) : ops[n].ok
\* position of a host in the host list
HostPos(h) == CHOOSE j \in 1..Len(hosts) : hosts[j] = h
\* the Restore run has resolved and checked its target
Resolved ==
    /\ kind = "restore"
    /\ pc \notin {"r_hist", "r_target"}
    /\ result \notin {"did not find valid cassandra hosts",
                      "error getting snapshot history"}

\* C1: with T the last timestamp of the loaded history and T' the new
\* timestamp, Backup goes past the timestamp check only if T' > T, and when
\* T' <= T it fails with the non-monotonic error without any schema dump,
\* upload, snapshot or delete.
C1_StrictlyMonotonic ==
    (Stamped /\ Len(List(hist)) > 0) =>
        LET T == Last(List(hist)) IN
        /\ PastCheck => StrGt(timestamp, T)
        /\ ~StrGt(timestamp, T) =>
              /\ result = "new timestamp less than last"
              /\ OpIdx(SchemaOps \cup HostOps) = {}

\* C2: when the schema phase of Backup fails (dump or upload), the run has
\* ended in failure and no Snapshot, UploadFiles or deleteSnapshot was issued.
C2_SchemaFailFast ==
    (kind = "backup" /\ result = "schema backup failed") =>
        /\ pc = "done"
        /\ OpIdx(HostOps) = {}

C2_Witness ==
    /\ kind = "backup"
    /\ result = "schema backup failed"
    /\ Len(hosts) = MaxHosts
    /\ Last(ops).op = "s3.UploadFile"
    /\ ~Last(ops).ok

\* C3: when a sub-step fails at host hk of Backup, the keys of h1..h(k-1)
\* are in the object store, no operation is attempted on h(k+1)..hn, no step
\* ever removes a key from the object store, and a history load lists every
\* key of the store.
C3_State ==
    kind = "backup" =>
        \A n \in OpIdx(HostOps) :
            ~ops[n].ok =>
                LET k == HostPos(ops[n].host) IN
                /\ \A j \in 1..(k - 1) :
                      DataKeys(parent, timestamp, hosts[j], SnapshotFiles) \subseteq s3
                /\ \A m \in 1..Len(ops) :
                      ops[m].host \in Range(hosts) => HostPos(ops[m].host) <= k

C3_Step ==
    /\ s3 \subseteq s3'
    /\ (hist' # hist /\ hist'.loaded) => s3 \subseteq hist'.keys

C3_PartialFailure == [](C3_State) /\ [][C3_Step]_vars

C3_Witness ==
    /\ kind = "backup"
    /\ Len(hosts) >= 2
    /\ result \in HostErrors
    /\ i = 2
    /\ DataKeys(parent, timestamp, hosts[1], SnapshotFiles) \subseteq s3

\* C4: when the loaded history is empty and incremental mode was requested,
\* Backup runs as a full backup: the parent of every schema and data key is
\* the new timestamp, the incremental flag is false afterwards, and neither
\* a Parent lookup nor a read of the last history entry is made.
C4_FirstIsFull ==
    (Stamped /\ reqIncr /\ Len(List(hist)) = 0) =>
        /\ PastCheck
        /\ parent = timestamp
        /\ ~config.Incremental
        /\ \A n \in OpIdx(KeyOps) :
              ops[n].parent = timestamp /\ ops[n].timestamp = timestamp
        /\ OpIdx({"hist.Parent", "snapshots[last]"}) = {}

C4_Witness ==
    /\ Stamped /\ reqIncr /\ Len(List(hist)) = 0
    /\ result = "ok"
    /\ Len(hosts) = MaxHosts

\* C5: when the loaded history is not empty and incremental mode is
\* requested, the parent of the schema key and of the data keys of every
\* host is the last entry of List(), the same for all keys of the run.
C5_ParentIsLast ==
    (PastCheck /\ reqIncr /\ Len(List(hist)) > 0) =>
        /\ parent = Last(List(hist))
        /\ config.Incremental
        /\ \A n \in OpIdx(KeyOps) :
              ops[n].parent = Last(List(hist)) /\ ops[n].timestamp = timestamp

C5_Witness ==
    /\ PastCheck /\ reqIncr
    /\ List(hist) = << NewTimestamp(ClockStep) >>
    /\ result = "ok"
    /\ Len(hosts) = MaxHosts
    /\ parent = NewTimestamp(ClockStep)
    /\ timestamp = NewTimestamp(2 * ClockStep)
    /\ Cardinality(OpIdx(KeyOps)) = 1 + MaxHosts

\* C6: a generation written by Backup has parent = timestamp exactly when
\* the run was a full backup; a run in incremental mode writes under a
\* parent strictly earlier than its timestamp that is in the loaded history.
C6_FullIffSelfParent ==
    Wrote =>
        /\ (parent = timestamp) <=> ~config.Incremental
        /\ config.Incremental => (StrGt(timestamp, parent) /\ Valid(hist, parent))

\* C7: the parent of every record written was in the history when the
\* record was created, and the parent links of every record of the store
\* end at a self-parented record in finitely many steps.
StoreTimestamps(store) == { k.timestamp : k \in store }
StoreParents(store, ts) == { k.parent : k \in { x \in store : x.timestamp = ts } }

RECURSIVE EndsAtFull(_, _, _)
EndsAtFull(store, ts, fuel) ==
    /\ fuel > 0
    /\ ts \in StoreTimestamps(store)
    /\ \A p \in StoreParents(store, ts) :
          p = ts \/ EndsAtFull(store, p, fuel - 1)

C7_State ==
    \A k \in s3 : EndsAtFull(s3, k.timestamp, Cardinality(StoreTimestamps(s3)))

C7_Step ==
    \A k \in s3' \ s3 :
        \/ k.parent = k.timestamp
        \/ k.parent \in StoreTimestamps(s3) /\ Valid(hist, k.parent)

C7_ChainsWellFounded == [](C7_State) /\ [][C7_Step]_vars

C7_Witness ==
    /\ Cardinality(StoreTimestamps(s3)) = 2
    /\ \E k \in s3 :
          /\ k.parent # k.timestamp
          /\ IsData(k)
          /\ \E q \in s3 : q.timestamp = k.parent /\ q.parent = q.timestamp

\* C8: Restore fails with the invalid-snapshot error whenever its target is
\* not in the loaded history, also for an explicit target on an empty
\* history, and DropKeyspace is issued only after Valid(target) was true.
C8_ValidBeforeDrop ==
    kind = "restore" =>
        /\ (Resolved /\ snapshot # << >> /\ ~Valid(hist, snapshot)) =>
              result = "not a valid snapshot"
        /\ \A n \in OpIdx({"DropKeyspace"}) :
              /\ Valid(hist, snapshot)
              /\ \E m \in 1..(n - 1) :
                    /\ ops[m].op = "hist.Valid"
                    /\ ops[m].timestamp = snapshot
                    /\ ops[m].ok

C8_Witness ==
    /\ kind = "restore"
    /\ config.Snapshot # << >>
    /\ hist.loaded /\ hist.keys = {}
    /\ result = "not a valid snapshot"

\* C9: the target of Restore is the explicit snapshot if one was supplied,
\* otherwise the last entry of List(); without an explicit target on an empty
\* history Restore fails with the no-backup error and issues no DropKeyspace,
\* schema, download, upload or bulk-load operation.
C9_TargetResolution ==
    Resolved =>
        /\ config.Snapshot # << >> => snapshot = config.Snapshot
        /\ (config.Snapshot = << >> /\ Len(List(hist)) > 0) =>
              snapshot = Last(List(hist))
        /\ (config.Snapshot = << >> /\ Len(List(hist)) = 0) =>
              /\ result = "no existing backup to restore from"
              /\ OpIdx(RestoreOps) = {}

C9_Witness ==
    /\ Resolved
    /\ config.Snapshot = << >>
    /\ Len(List(hist)) > 0
    /\ snapshot = Last(List(hist))
    /\ HasOp("DropKeyspace")

\* C10: Backup returns success only if every host completed snapshot, upload
\* and delete; the run has one terminal outcome, and a failed step is the
\* last step of its run and makes the run fail.
C10_SuccessMeansAllHosts ==
    kind = "backup" =>
        /\ (pc = "done") <=> (result # "none")
        /\ result = "ok" =>
              /\ Len(hosts) > 0
              /\ \A j \in 1..Len(hosts) : \A o \in HostOps :
                    \E n \in OpIdx({o}) : ops[n].host = hosts[j] /\ ops[n].ok
        /\ \A n \in 1..Len(ops) :
              ~ops[n].ok => (n = Len(ops) /\ result \notin {"none", "ok"})

C10_Witness ==
    /\ kind = "backup"
    /\ result = "ok"
    /\ Len(hosts) = MaxHosts
    /\ Cardinality(OpIdx(HostOps)) = 3 * MaxHosts

\* C11: Backup and Restore fail with the no-hosts error when the node driver
\* returns no host, and such a run loads no history and calls no other
\* collaborator: its only operation is cassandra.Hosts.
C11_State ==
    (kind \in {"backup", "restore"} /\ Len(hosts) = 0) =>
        /\ pc = "done"
        /\ result = (IF kind = "backup" THEN "unable to get any cassandra hosts"
                                        ELSE "did not find valid cassandra hosts")
        /\ Len(ops) = 1
        /\ ops[1].op = "cassandra.Hosts"

C11_Step ==
    (kind' \in {"backup", "restore"} /\ Len(hosts') = 0) =>
        /\ hist' = hist
        /\ s3' = s3

C11_NoHosts == [](C11_State) /\ [][C11_Step]_vars

C11_Witness ==
    /\ kind = "restore"
    /\ Len(hosts) = 0
    /\ result = "did not find valid cassandra hosts"
    /\ ~hist.loaded
    /\ runs = 2

\* C12: once the history is loaded, every later SnapshotHistory() on the same
\* Priam object succeeds without a query to the object store and leaves the
\* cached history as it is.
HistQueries(o) == { n \in 1..Len(o) : o[n].op = "s3.SnapshotHistory" }

C12_Step ==
    (hist.loaded /\ pc' # "idle") =>
        /\ hist' = hist
        /\ result' # "error getting snapshot history"
        /\ Cardinality(HistQueries(ops')) <=
              (IF runs' # runs THEN 0 ELSE Cardinality(HistQueries(ops)))

C12_LoadIdempotent == [][C12_Step]_vars

C12_Witness ==
    /\ kind = "backup"
    /\ pc = "b_ts"
    /\ hist.loaded
    /\ hist.keys # s3
    /\ HistQueries(ops) = {}

\* C13: hist.Keys(S) is the union of the data keys recorded at S and at every
\* ancestor of S up to the full backup, each key once; when an ancestor that a
\* parent link refers to is missing from the history, Keys fails and Restore
\* ends before any download.
RECURSIVE Ancestry(_, _)
Ancestry(h, S) ==
    LET up == S \cup UNION { Parents(h, t) : t \in S }
    IN  IF up = S THEN S ELSE Ancestry(h, up)

C13_AncestryClosure ==
    kind = "restore" =>
        /\ HasOp("s3.downloadKeys") => HasOp("hist.Keys")
        /\ \A n \in OpIdx({"hist.Keys"}) :
            LET anc == Ancestry(hist, {snapshot})
            IN  /\ ops[n].ok <=> anc \subseteq HistTimestamps(hist)
                /\ ops[n].ok =>
                      keys = { k \in hist.keys : IsData(k) /\ k.timestamp \in anc }
                /\ ~ops[n].ok =>
                      /\ n = Len(ops)
                      /\ pc = "done"
                      /\ result = "error loading snapshot"
                      /\ pushed = {}

C13_Witness ==
    /\ kind = "restore"
    /\ HasOp("s3.downloadKeys")
    /\ Cardinality({ k.timestamp : k \in keys }) = 2
    /\ \E k \in keys : k.parent # k.timestamp
    /\ \E k \in keys : k.parent = k.timestamp

\* a Restore whose history lacks an ancestor has ended at hist.Keys
C13_BrokenChain ==
    /\ kind = "restore"
    /\ \E n \in OpIdx({"hist.Keys"}) : ~ops[n].ok
    /\ HasOp("CreateSchema")

\* C14: Backup handles the hosts one after the other in the order of the node
\* driver's list, and for each host calls Snapshot, UploadFiles and
\* deleteSnapshot in that order: a call is made only when every host call
\* before it has succeeded.
HostPhases == << "cassandra.Snapshot", "s3.UploadFiles", "cassandra.deleteSnapshot" >>

HostCalls == SelectSeq(ops, LAMBDA o : o.op \in HostOps)

C14_HostsInOrder ==
    kind = "backup" =>
        LET calls == HostCalls
        IN  /\ Len(calls) <= 3 * Len(hosts)
            /\ \A j \in 1..Len(calls) :
                /\ calls[j].host = hosts[((j - 1) \div 3) + 1]
                /\ calls[j].op = HostPhases[((j - 1) % 3) + 1]
                /\ calls[j].timestamp = timestamp
                /\ j < Len(calls) => calls[j].ok
            /\ \A n \in OpIdx(HostOps), m \in 1..Len(ops) :
                m > n => ops[m].op \in HostOps

C14_Witness ==
    /\ kind = "backup"
    /\ Len(hosts) = 2
    /\ Len(HostCalls) = 5
    /\ HostCalls[4].host = hosts[2]
    /\ ~HostCalls[5].ok

\* C15: after the validation, Restore calls DropKeyspace, the schema restore
\* (hist.Parent, s3.downloadKey, agent.UploadFile, CreateSchema), hist.Keys,
\* s3.downloadKeys, uploadFilesToHost and sstableload in this order; a call is
\* made only when every call before it has succeeded, the first failure ends
\* the run with an error, and nothing is called or undone after it.
RestoreOrder ==
    << "DropKeyspace", "hist.Parent", "s3.downloadKey", "agent.UploadFile",
       "CreateSchema", "hist.Keys", "s3.downloadKeys", "uploadFilesToHost",
       "cassandra.sstableload" >>

RestoreCalls == SelectSeq(ops, LAMBDA o : o.op \in Range(RestoreOrder))

C15_State ==
    kind = "restore" =>
        LET calls == RestoreCalls
        IN  /\ Len(calls) <= Len(RestoreOrder)
            /\ \A j \in 1..Len(calls) :
                /\ calls[j].op = RestoreOrder[j]
                /\ j < Len(calls) => calls[j].ok
            /\ \A n \in OpIdx(Range(RestoreOrder)), m \in 1..Len(ops) :
                m > n => ops[m].op \in Range(RestoreOrder)
            /\ (calls # << >> /\ ~Last(calls).ok) =>
                  pc = "done" /\ result \notin {"ok", "none"}
            /\ result = "ok" =>
                  Len(calls) = Len(RestoreOrder) /\ Last(calls).ok

C15_Step == kind' = "restore" => s3' = s3

C15_RestoreOrder == [](C15_State) /\ [][C15_Step]_vars

C15_Witness ==
    /\ kind = "restore"
    /\ Len(RestoreCalls) = 7
    /\ ~Last(RestoreCalls).ok
    /\ Last(ops).op = "s3.downloadKeys"
    /\ pc = "done"

\* C16 as stated: a Restore that fails at any step after a successful
\* DropKeyspace ends with the keyspace dropped and no new schema applied.
Dropped == \E n \in OpIdx({"DropKeyspace"}) : ops[n].ok

SchemaApplied == \E n \in OpIdx({"CreateSchema"}) : ops[n].ok

C16_DroppedNoSchema ==
    (kind = "restore" /\ pc = "done" /\ result # "ok" /\ Dropped) => ~SchemaApplied

\* C16 amended: in a Restore that fails after a successful DropKeyspace, no
\* CreateSchema has succeeded exactly when the failure is in the schema restore
\* (download, push or apply); a failure in a later step leaves the keyspace
\* re-created by the applied schema. After the failure Restore neither drops
\* nor creates anything, and it drops at most once.
LoadSteps ==
    {"hist.Keys", "s3.downloadKeys", "uploadFilesToHost", "cassandra.sstableload"}

C16_DroppedUntilSchema ==
    kind = "restore" =>
        \A n \in 1..Len(ops) :
            (~ops[n].ok /\ \E d \in 1..(n - 1) : ops[d].op = "DropKeyspace" /\ ops[d].ok) =>
                /\ \A m \in (n + 1)..Len(ops) :
                      ops[m].op \notin {"DropKeyspace", "CreateSchema"}
                /\ Cardinality(OpIdx({"DropKeyspace"})) = 1
                /\ Cardinality(OpIdx({"CreateSchema"})) <= 1
                /\ SchemaApplied <=> ops[n].op \in LoadSteps

C16_Witness ==
    /\ kind = "restore"
    /\ pc = "done"
    /\ Dropped
    /\ Last(ops).op = "agent.UploadFile"
    /\ ~Last(ops).ok
    /\ ~HasOp("CreateSchema")

\* C17: a Backup that reaches the schema phase dumps the schema once, from the
\* first host, and uploads it at most once, under the schema key of its
\* (parent, timestamp), before the first Snapshot; the host loop dumps and
\* uploads no schema.
C17_State ==
    kind = "backup" =>
        /\ Cardinality(OpIdx({"cassandra.SchemaBackup"})) <= 1
        /\ Cardinality(OpIdx({"s3.UploadFile"})) <= 1
        /\ \A n \in OpIdx(SchemaOps) :
            /\ ops[n].host = hosts[1]
            /\ \A m \in OpIdx(HostOps) : n < m
        /\ \A n \in OpIdx({"s3.UploadFile"}) :
            /\ ops[n].parent = parent
            /\ ops[n].timestamp = timestamp
            /\ n > 1
            /\ ops[n - 1].op = "cassandra.SchemaBackup"
            /\ ops[n - 1].ok
        /\ HasOp("cassandra.Snapshot") =>
              \E n \in OpIdx({"s3.UploadFile"}) : ops[n].ok

C17_Step ==
    kind' = "backup" =>
        { k \in s3' \ s3 : ~IsData(k) } \subseteq { Key(parent, timestamp, "", SchemaName) }

C17_SchemaOnce == [](C17_State) /\ [][C17_Step]_vars

C17_Witness ==
    /\ kind = "backup"
    /\ Len(hosts) = 2
    /\ \E n \in OpIdx({"cassandra.Snapshot"}) : ops[n].host = hosts[2]
    /\ Cardinality(OpIdx({"s3.UploadFile"})) = 1
    /\ parent # timestamp
    /\ Key(parent, timestamp, "", SchemaName) \in s3

\* C18: the schema key that Restore computes from its target and the parent
\* that the history returns for it is the schema key that Backup uploaded for
\* this (parent, timestamp), for a full and for an incremental snapshot: it is
\* a key of the loaded history, under that parent and that timestamp, with the
\* schema suffix.
C18_SchemaKeyRoundTrip ==
    kind = "restore" =>
        \A n \in OpIdx({"s3.downloadKey"}) :
            /\ n > 1
            /\ ops[n - 1].op = "hist.Parent"
            /\ ops[n - 1].timestamp = snapshot
            /\ ops[n].timestamp = snapshot
            /\ ops[n].parent = ops[n - 1].parent
            /\ Key(ops[n].parent, ops[n].timestamp, "", SchemaName) \in hist.keys
            /\ \A k \in hist.keys :
                (~IsData(k) /\ k.timestamp = snapshot /\ k.parent = ops[n - 1].parent)
                    => k = Key(ops[n].parent, ops[n].timestamp, "", SchemaName)

C18_Witness ==
    /\ kind = "restore"
    /\ \E n \in OpIdx({"s3.downloadKey"}) :
        /\ ops[n].ok
        /\ ops[n].parent # ops[n].timestamp
        /\ ops[n].parent = NewTimestamp(ClockStep)
    /\ \E k \in hist.keys : IsData(k) /\ k.timestamp = snapshot
    /\ HasOp("CreateSchema")

\* the same round trip for a full snapshot
C18_FullRoundTrip ==
    /\ kind = "restore"
    /\ \E n \in OpIdx({"s3.downloadKey"}) :
        /\ ops[n].ok
        /\ ops[n].parent = ops[n].timestamp
    /\ HasOp("CreateSchema")

\* C19: uploadFilesToHost pushes every downloaded file to the first host, into
\* the remote directory of its key, and returns exactly the distinct
\* directories of the pushed files; sstableload is called on that host only
\* after every file was pushed; when a push fails, no directory is returned and
\* sstableload is not called.
DirOf(k) == [parent |-> k.parent, timestamp |-> k.timestamp, host |-> k.host]

C19_Redistribute ==
    kind = "restore" =>
        /\ pushed \subseteq keys
        /\ ~HasOp("uploadFilesToHost") => pushed = {} /\ dirs = {}
        /\ \A n \in OpIdx({"uploadFilesToHost"}) :
            /\ ops[n].host = hosts[1]
            /\ ops[n].ok =>
                /\ pushed = keys
                /\ dirs = { DirOf(k) : k \in keys }
            /\ ~ops[n].ok =>
                /\ pushed # keys
                /\ dirs = {}
                /\ ~HasOp("cassandra.sstableload")
                /\ pc = "done"
                /\ result = "error loading snapshot"
        /\ \A n \in OpIdx({"cassandra.sstableload"}) :
            /\ ops[n].host = hosts[1]
            /\ pushed = keys
            /\ dirs = { DirOf(k) : k \in pushed }
            /\ ops[n - 1].op = "uploadFilesToHost"
            /\ ops[n - 1].ok

C19_Witness ==
    /\ kind = "restore"
    /\ HasOp("cassandra.sstableload")
    /\ Cardinality(keys) = 2
    /\ pushed = keys
    /\ Cardinality(dirs) = 2
    /\ \E k \in keys : k.host # hosts[1]

\* a push has failed after another file was pushed
C19_PartialPush ==
    /\ kind = "restore"
    /\ \E n \in OpIdx({"uploadFilesToHost"}) : ~ops[n].ok
    /\ pushed # {}

\* C20: a failed history load is not cached. When the query of the object store
\* fails, the cached history stays unset and the run ends with the history
\* error before any use of the history; the next SnapshotHistory() on the same
\* object queries the store again; the cache is only set by a successful query,
\* to the listing of the store, and is never replaced once set.
HistReads == {"hist.List", "hist.Valid", "hist.Parent", "hist.Keys", "snapshots[last]"}

C20_State ==
    /\ OpIdx(HistReads) # {} => hist.loaded
    /\ \A n \in HistQueries(ops) :
        ~ops[n].ok =>
            /\ ~hist.loaded
            /\ n = Len(ops)
            /\ pc = "done"
            /\ result = "error getting snapshot history"

C20_Step ==
    /\ (hist' # hist /\ pc' # "idle") =>
        /\ ~hist.loaded
        /\ hist' = [loaded |-> TRUE, keys |-> s3]
        /\ Last(ops').op = "s3.SnapshotHistory"
        /\ Last(ops').ok
    /\ (~hist.loaded /\ (pc \in {"b_hist", "r_hist"} \/ (kind' = "history" /\ runs' # runs))) =>
        /\ Last(ops').op = "s3.SnapshotHistory"
        /\ Len(ops') = (IF runs' # runs THEN 0 ELSE Len(ops)) + 1

C20_FailedLoadNotCached == [](C20_State) /\ [][C20_Step]_vars

C20_Witness ==
    /\ kind = "backup"
    /\ runs = 2
    /\ failures = 1
    /\ pc = "b_ts"
    /\ hist.loaded
    /\ \E n \in HistQueries(ops) : ops[n].ok
    /\ s3 = {}

====
